---- MODULE Spec2Model ----
(***************************************************************************)
(* Expense tracker backend: the auth gate (src/app.js, authMiddleware) and *)
(* the router (src/unnamed/part_000): totals, record CRUD, the time-window *)
(* filter, the text search and user registration, over a document store    *)
(* of users and expense records.                                            *)
(*                                                                         *)
(* Strings are sequences of one-character strings, so that substring and   *)
(* letter-case behaviour is computed and not assumed.  A JSON value whose   *)
(* type matters (an amount) is a tagged record.  Every await of a handler   *)
(* is a separate step of the request that runs it.                          *)
(***************************************************************************)
EXTENDS Integers, Sequences, FiniteSets, TLC

\* ------------------------------------------------------------------ bounds
MaxLen == 2         \* longest record sequence handed to calculateTotals alone
MaxRecords == 2     \* records ever created in one run
MaxInFlight == 2    \* registrations in flight at once
MaxNow == 8         \* the last instant the clock shows
MaxDate == 3        \* the last instant a record is dated at
TicksPerDay == 2    \* clock ticks in a day
DaysPerMonth == 2   \* days in a month
MonthsPerYear == 2  \* months in a year

VARIABLES
    users,      \* the users collection, in insertion order
    records,    \* the expenses collection, in insertion order (natural order)
    nextId,     \* the next record id the store hands out
    reqs,       \* the requests in flight, one per slot, each at an await
    res,        \* the response the last step sent, NoRes if it sent none
    sample,     \* calculateTotals alone: the records handed to it
    totals,     \* calculateTotals alone: what it returned, <<>> before the call
    submitted   \* history: per record id, what create-expense was given and by
                \* whom, <<>> once the record has been updated or deleted

vars == <<users, records, nextId, reqs, res, sample, totals, submitted>>

\* -------------------------------------------------------------- characters
\* A string is a sequence of characters.  A character is a one-character
\* string; the characters that a string literal cannot spell go by a name
\* (GRAVE is the backtick).  Printable lists the code units 32 to 126.
Printable ==
    <<" ", "!", "\"", "#", "$", "%", "&", "'", "(", ")", "*", "+", ",", "-", ".", "/",
      "0", "1", "2", "3", "4", "5", "6", "7", "8", "9", ":", ";", "<", "=", ">", "?",
      "@", "A", "B", "C", "D", "E", "F", "G", "H", "I", "J", "K", "L", "M", "N", "O",
      "P", "Q", "R", "S", "T", "U", "V", "W", "X", "Y", "Z", "[", "\\", "]", "^", "_",
      "GRAVE", "a", "b", "c", "d", "e", "f", "g", "h", "i", "j", "k", "l", "m", "n", "o",
      "p", "q", "r", "s", "t", "u", "v", "w", "x", "y", "z", "{", "|", "}", "~">>

Named ==
    <<[c |-> "NUL", code |-> 0], [c |-> "BS", code |-> 8], [c |-> "\t", code |-> 9],
      [c |-> "\n", code |-> 10], [c |-> "VT", code |-> 11], [c |-> "\f", code |-> 12],
      [c |-> "\r", code |-> 13], [c |-> "DEL", code |-> 127],
      [c |-> "NBSP", code |-> 160], [c |-> "OGHAM", code |-> 5760],
      [c |-> "ENSP", code |-> 8194], [c |-> "ZWSP", code |-> 8203],
      [c |-> "LS", code |-> 8232], [c |-> "PS", code |-> 8233],
      [c |-> "NNBSP", code |-> 8239], [c |-> "MMSP", code |-> 8287],
      [c |-> "IDSP", code |-> 12288], [c |-> "BOM", code |-> 65279]>>

\* The code unit of a character.
Code(c) ==
    IF \E i \in 1..Len(Printable) : Printable[i] = c
    THEN 31 + (CHOOSE i \in 1..Len(Printable) : Printable[i] = c)
    ELSE Named[CHOOSE i \in 1..Len(Named) : Named[i].c = c].code

\* WhiteSpace and LineTerminator of ECMAScript, as code units: what trim()
\* strips and what Number() skips around a numeric literal.
WhiteSpaceCodes ==
    {9, 10, 11, 12, 13, 32, 160, 5760, 8232, 8233, 8239, 8287, 12288, 65279}
    \cup (8192..8202)

isWhiteSpace(c) == Code(c) \in WhiteSpaceCodes

RECURSIVE trimStart(_)
trimStart(cs) ==
    IF cs # <<>> /\ isWhiteSpace(Head(cs)) THEN trimStart(Tail(cs)) ELSE cs

RECURSIVE trimEnd(_)
trimEnd(cs) ==
    IF cs # <<>> /\ isWhiteSpace(cs[Len(cs)])
    THEN trimEnd(SubSeq(cs, 1, Len(cs) - 1)) ELSE cs

\* String.prototype.trim
trim(cs) == trimEnd(trimStart(cs))

Income  == <<"I", "n", "c", "o", "m", "e">>
Expense == <<"E", "x", "p", "e", "n", "s", "e">>

\* ----------------------------------------------------------------- numbers
\* A Number is a double: NaN, +Infinity or -Infinity, or a finite value, a
\* sign (neg) and a magnitude.  A magnitude is written in binary, as the set
\* of the exponents of the powers of two that add up to it: 5 is {0, 2},
\* 0.75 is {-1, -2} and 0 is {}.  The magnitude of a double has its digits
\* within 53 places, none below 2^-1074 and none above 2^1023; 0 has a sign.
NaN == [k |-> "nan", neg |-> FALSE, bits |-> {}]
Infinity(sign) == [k |-> "inf", neg |-> sign < 0, bits |-> {}]

\* The magnitude of a natural number below 2^31.
Bits(n) == {i \in 0..30 : (n \div 2^i) % 2 = 1}

Finite(i) == [k |-> "fin", neg |-> i < 0, bits |-> Bits(IF i < 0 THEN -i ELSE i)]
Zero == Finite(0)

\* The highest and the lowest digit of a magnitude other than 0.
Top(A) == CHOOSE i \in A : \A j \in A : j <= i
Bottom(A) == CHOOSE i \in A : \A j \in A : j >= i

\* The places a carry reaches: it starts above each place of From and goes
\* up to the first place that is not in Through.
Carries(From, Through) ==
    UNION {(j + 1)..(CHOOSE k \in (j + 1)..(j + Cardinality(Through) + 1) :
                        /\ k \notin Through
                        /\ \A n \in (j + 1)..(k - 1) : n \in Through) :
           j \in From}

\* A + B: the digits only one of them has, changed where a carry comes in;
\* a carry starts where both have a digit and goes through those digits.
Sum(A, B) ==
    LET with(P, C) == (P \ C) \cup (C \ P)
        add(P) == with(P, Carries(A \cap B, P))
    IN  add((A \ B) \cup (B \ A))

\* A - B, for A >= B: a borrow starts where only B has a digit and goes up
\* to the first place where only A has one.
Difference(A, B) ==
    LET with(P, C) == (P \ C) \cup (C \ P)
        take(P, Stops) ==
            with(P, Carries(B \ A, (Bottom(P)..Top(P)) \ Stops))
    IN  IF A = B THEN {} ELSE take((A \ B) \cup (B \ A), A \ B)

\* A * B, by halves of B
RECURSIVE Times(_, _)
Times(A, B) ==
    LET halves(lo, hi) ==
            IF lo = hi THEN {i + lo : i \in A}
            ELSE Sum(Times(A, {j \in B : j <= (lo + hi) \div 2}),
                     Times(A, {j \in B : j > (lo + hi) \div 2}))
    IN  IF A = {} \/ B = {} THEN {} ELSE halves(Bottom(B), Top(B))

\* The double nearest to the magnitude S, the even one of two that are as
\* near, and Infinity from 2^1024 on: S is cut to 53 digits, none below
\* 2^-1074, and goes up by one in the last place when what is cut is more
\* than half of it, or is half of it and the last digit is odd.
Round(neg, S) ==
    LET to(r) ==
            IF r # {} /\ Top(r) > 1023 THEN [k |-> "inf", neg |-> neg, bits |-> {}]
            ELSE [k |-> "fin", neg |-> neg, bits |-> r]
        at(cut) ==
            IF (cut - 1) \in S /\ (cut \in S \/ \E i \in S : i < cut - 1)
            THEN to(Sum({i \in S : i >= cut}, {cut}))
            ELSE [k |-> "fin", neg |-> neg, bits |-> {i \in S : i >= cut}]
        from(top) == at(IF top - 52 > -1074 THEN top - 52 ELSE -1074)
    IN  IF S = {} THEN [k |-> "fin", neg |-> neg, bits |-> {}]
        ELSE IF Top(S) > 1023 THEN [k |-> "inf", neg |-> neg, bits |-> {}]
        ELSE from(Top(S))

\* x + y: the sum, rounded to a double; equal magnitudes of opposite sign give +0.
Plus(x, y) ==
    CASE x.k = "nan" \/ y.k = "nan"   -> NaN
      [] x.k = "inf" /\ y.k = "inf"   -> IF x.neg = y.neg THEN x ELSE NaN
      [] x.k = "inf"                  -> x
      [] y.k = "inf"                  -> y
      [] x.neg = y.neg                -> Round(x.neg, Sum(x.bits, y.bits))
      [] x.bits = y.bits              -> Zero
      [] Top((x.bits \ y.bits) \cup (y.bits \ x.bits)) \in y.bits ->
                                         Round(y.neg, Difference(y.bits, x.bits))
      [] OTHER                        -> Round(x.neg, Difference(x.bits, y.bits))

\* -x
Negate(x) == IF x.k = "nan" THEN x ELSE [x EXCEPT !.neg = ~x.neg]

\* x - y
Minus(x, y) == Plus(x, Negate(y))

\* x >= 0, false of NaN and true of -0
NonNegative(x) == x.k # "nan" /\ (~x.neg \/ (x.k = "fin" /\ x.bits = {}))

\* v || 0 on a number: NaN, 0 and -0 are falsy.
OrZero(v) == IF v.k = "nan" \/ (v.k = "fin" /\ v.bits = {}) THEN Zero ELSE v

\* ------------------------------------------------------------- JSON values
Num(i)  == [t |-> "num", v |-> Finite(i), s |-> <<>>]
NumV(x) == [t |-> "num", v |-> x, s |-> <<>>]
Str(cs) == [t |-> "str", v |-> Zero, s |-> cs]
Bool(b) == [t |-> "bool", v |-> IF b THEN Finite(1) ELSE Zero, s |-> <<>>]
Null    == [t |-> "null", v |-> Zero, s |-> <<>>]
Undef   == [t |-> "undef", v |-> Zero, s |-> <<>>]

\* The digits of every radix by value, a letter in either case.
Digits == <<{"0"}, {"1"}, {"2"}, {"3"}, {"4"}, {"5"}, {"6"}, {"7"}, {"8"}, {"9"},
            {"a", "A"}, {"b", "B"}, {"c", "C"}, {"d", "D"}, {"e", "E"}, {"f", "F"}>>

IsDigitOf(c, radix) == \E i \in 1..radix : c \in Digits[i]
DigitVal(c) == (CHOOSE i \in 1..16 : c \in Digits[i]) - 1
IsDigit(c) == IsDigitOf(c, 10)
AllDigits(cs, radix) == \A i \in 1..Len(cs) : IsDigitOf(cs[i], radix)

\* The value of the digits cs in a radix, 0 for no digits: a small one.
RECURSIVE DigitsValue(_, _)
DigitsValue(cs, radix) ==
    IF cs = <<>> THEN 0
    ELSE radix * DigitsValue(SubSeq(cs, 1, Len(cs) - 1), radix) + DigitVal(cs[Len(cs)])

\* 10^n as a magnitude, by halves of n.
RECURSIVE PowerOfTen(_)
PowerOfTen(n) ==
    IF n = 0 THEN {0}
    ELSE IF n = 1 THEN Bits(10)
    ELSE Times(PowerOfTen(n \div 2), PowerOfTen(n - n \div 2))

\* The value of the digits cs in radix 2, 8, 10 or 16 as a magnitude, of any
\* size, by halves of cs.
RECURSIVE DigitsBits(_, _)
DigitsBits(cs, radix) ==
    LET half == Len(cs) \div 2
        shifted(A, n) ==
            IF radix = 10 THEN Times(A, PowerOfTen(n))
            ELSE {i + n * Top(Bits(radix)) : i \in A}
    IN  IF cs = <<>> THEN {}
        ELSE IF Len(cs) = 1 THEN Bits(DigitVal(cs[1]))
        ELSE Sum(shifted(DigitsBits(SubSeq(cs, 1, half), radix), Len(cs) - half),
                 DigitsBits(SubSeq(cs, half + 1, Len(cs)), radix))

RECURSIVE stripLeadingZeros(_)
stripLeadingZeros(cs) ==
    IF cs # <<>> /\ Head(cs) = "0" THEN stripLeadingZeros(Tail(cs)) ELSE cs

\* The first index of cs that holds one of the characters of S, 0 for none.
IndexOf(cs, S) ==
    IF \E i \in 1..Len(cs) : cs[i] \in S
    THEN CHOOSE i \in 1..Len(cs) : cs[i] \in S /\ \A j \in 1..(i - 1) : cs[j] \notin S
    ELSE 0

\* The digits at the places hi down to lo of the quotient of rem by D, and
\* what is left of rem, by halves of the places: a digit is set where D at
\* that place is no more than what is left.
RECURSIVE Divide(_, _, _, _)
Divide(rem, D, hi, lo) ==
    LET one(d) ==
            IF rem # d /\ Top((rem \ d) \cup (d \ rem)) \in d
            THEN [q |-> {}, rem |-> rem]
            ELSE [q |-> {hi}, rem |-> Difference(rem, d)]
        low(a, b) == [q |-> a.q \cup b.q, rem |-> b.rem]
        high(a) == low(a, Divide(a.rem, D, (hi + lo) \div 2, lo))
    IN  IF hi = lo THEN one({i + hi : i \in D})
        ELSE high(Divide(rem, D, hi, (hi + lo) \div 2 + 1))

\* The double nearest to digits * 10^exp10.  A value of 10^309 or more is
\* Infinity and one below 10^-324 is 0.  For exp10 < 0 the digits are divided
\* by the power of ten, to 57 binary places and one more below them that
\* says whether the division left a remainder, which is all that rounding
\* looks at.
Scaled(digits, exp10) ==
    LET sticky(r, low) == IF r.rem = {} THEN r.q ELSE r.q \cup {low - 1}
        places(N, D, j) == sticky(Divide(N, D, j, j - 56), j - 56)
        quotient(N, D) == places(N, D, Top(N) - Top(D))
        scale(N, magnitude) ==
            IF N = {} THEN Zero
            ELSE IF magnitude >= 310 THEN Infinity(1)
            ELSE IF magnitude <= -324 THEN Zero
            ELSE Round(FALSE, IF exp10 >= 0 THEN Times(N, PowerOfTen(exp10))
                              ELSE quotient(N, PowerOfTen(-exp10)))
        of(sig) == scale(DigitsBits(sig, 10), Len(sig) + exp10)
    IN  of(stripLeadingZeros(digits))

\* StrUnsignedDecimalLiteral: Infinity, or digits with at most one "." and at
\* least one digit, then an optional exponent of at least one digit.
UnsignedDecimal(cs) ==
    LET e == IndexOf(cs, {"e", "E"})
        mantissa == IF e = 0 THEN cs ELSE SubSeq(cs, 1, e - 1)
        exponent == IF e = 0 THEN <<>> ELSE SubSeq(cs, e + 1, Len(cs))
        expSigned == exponent # <<>> /\ Head(exponent) \in {"+", "-"}
        expDigits == IF expSigned THEN Tail(exponent) ELSE exponent
        expValue == IF expSigned /\ Head(exponent) = "-"
                    THEN -DigitsValue(expDigits, 10) ELSE DigitsValue(expDigits, 10)
        dot == IndexOf(mantissa, {"."})
        whole == IF dot = 0 THEN mantissa ELSE SubSeq(mantissa, 1, dot - 1)
        fraction == IF dot = 0 THEN <<>> ELSE SubSeq(mantissa, dot + 1, Len(mantissa))
    IN  IF cs = <<"I", "n", "f", "i", "n", "i", "t", "y">> THEN Infinity(1)
        ELSE IF \/ ~AllDigits(whole, 10) \/ ~AllDigits(fraction, 10)
                \/ whole \o fraction = <<>>
                \/ (e # 0 /\ (expDigits = <<>> \/ ~AllDigits(expDigits, 10)))
        THEN NaN
        ELSE Scaled(whole \o fraction, expValue - Len(fraction))

\* The radix of a 0x, 0o or 0b prefix, 0 when cs has none.
PrefixRadix(cs) ==
    IF Len(cs) < 2 \/ cs[1] # "0" THEN 0
    ELSE IF cs[2] \in {"x", "X"} THEN 16
    ELSE IF cs[2] \in {"o", "O"} THEN 8
    ELSE IF cs[2] \in {"b", "B"} THEN 2
    ELSE 0

\* StringToNumber: white space around a literal is skipped, and the empty
\* string is 0; the literal is hexadecimal, octal or binary and unsigned, or
\* decimal with an optional sign.
StringToNumber(cs) ==
    LET lit == trim(cs)
        radix == PrefixRadix(lit)
        signed == lit # <<>> /\ Head(lit) \in {"+", "-"}
        unsigned == UnsignedDecimal(IF signed THEN Tail(lit) ELSE lit)
    IN  IF lit = <<>> THEN Zero
        ELSE IF radix # 0
        THEN IF Len(lit) > 2 /\ AllDigits(SubSeq(lit, 3, Len(lit)), radix)
             THEN Round(FALSE, DigitsBits(SubSeq(lit, 3, Len(lit)), radix))
             ELSE NaN
        ELSE IF signed /\ Head(lit) = "-" THEN Negate(unsigned)
        ELSE unsigned

\* Number(x) of a value a JSON body or a stored document may hold.
Number(x) ==
    CASE x.t = "num"   -> x.v
      [] x.t = "bool"  -> x.v
      [] x.t = "null"  -> Zero
      [] x.t = "undef" -> NaN
      [] x.t = "str"   -> StringToNumber(x.s)

\* !x is false: a number other than 0, -0 and NaN, true, or a non-empty string.
truthy(x) ==
    CASE x.t = "num"  -> x.v.k # "nan" /\ ~(x.v.k = "fin" /\ x.v.bits = {})
      [] x.t = "bool" -> x.v # Zero
      [] x.t = "str"  -> x.s # <<>>
      [] OTHER        -> FALSE

\* ------------------------------------------------------- requests, replies
Slots == 1..MaxInFlight

\* Ids a request may name: those ever handed out and one never handed out.
Ids == 1..(MaxRecords + 1)

NoToken == [kind |-> "absent", userId |-> 0]
NoBody  == [has |-> {}, type |-> <<>>, amount |-> Undef,
            date |-> [valid |-> FALSE, falsy |-> TRUE, t |-> 0],
            category |-> <<>>, description |-> <<>>,
            name |-> <<>>, email |-> <<>>, password |-> <<>>]
NoArgs  == [id |-> 0, body |-> NoBody, filter |-> <<>>, query |-> <<>>]

\* A request at an await: its route, where it waits, its bearer token, the
\* req.user the gate attached (0 before), its inputs and its locals (the
\* record its write returned, the instant dayjs() gave it and its window).
Idle == [op |-> "idle", pc |-> "idle", tok |-> NoToken, user |-> 0,
         args |-> NoArgs, rec |-> <<>>, at |-> 0, win |-> <<>>]

NoRes == [op |-> "none", status |-> 0, tok |-> NoToken, user |-> 0,
          args |-> NoArgs, rec |-> <<>>, at |-> 0, data |-> <<>>,
          totals |-> <<>>, totalResults |-> 0]

\* res.status(st).json(...) of the request in slot s, which ends it.
Respond(s, r, st, data, tot) ==
    /\ res' = [op |-> r.op, status |-> st, tok |-> r.tok, user |-> r.user,
               args |-> r.args, rec |-> r.rec, at |-> r.at, data |-> data,
               totals |-> tot, totalResults |-> Len(data)]
    /\ reqs' = [reqs EXCEPT ![s] = Idle]

\* The request in slot s goes on to its next await; nothing is sent.
Await(s, r) ==
    /\ reqs' = [reqs EXCEPT ![s] = r]
    /\ res' = NoRes

\* A present body field; an absent one reads as undefined.
Has(body, f) == f \in body.has

\* ---------------------------------------------------------------- auth gate
\* authHeader && authHeader.startsWith("Bearer ")
hasBearer(tok) == tok.kind \notin {"absent", "nobearer"}

\* A verify that does not look at the expiry of the token.
jwtVerify_IgnoreExpiry(tok) == tok.kind \in {"valid", "expired"}

\* jwt.verify(token, JWT_SECRET) returns (does not throw)
jwtVerify(tok) == tok.kind = "valid"

\* User.findById(id) is not null
userFound(us, id) == \E i \in 1..Len(us) : us[i].id = id

\* ------------------------------------------------------------------- dates
\* The date of a body.  valid: dayjs reads it as a date, the instant t.
\* falsy: !date holds, as for 0 and false, which dayjs reads as dates, and
\* for "" and null, which it does not.
D(t) == [valid |-> TRUE, falsy |-> FALSE, t |-> t]
BadDate == [valid |-> FALSE, falsy |-> FALSE, t |-> 0]
FalsyDate(valid) == [valid |-> valid, falsy |-> TRUE, t |-> 0]

\* ------------------------------------------------------------------ totals
\* A type filter that ignores the case of the first letter.
filterType_AnyCase(rs, ty) ==
    SelectSeq(rs, LAMBDA r : Len(r.type) = Len(ty) /\ Tail(r.type) = Tail(ty))

\* records.filter((r) => r.type === ty)
filterType(rs, ty) == SelectSeq(rs, LAMBDA r : r.type = ty)

\* .reduce((sum, r) => sum + (Number(r.amount) || 0), 0), left to right
RECURSIVE reduceSum(_, _)
reduceSum(rs, sum) ==
    IF rs = <<>> THEN sum
    ELSE reduceSum(Tail(rs), Plus(sum, OrZero(Number(Head(rs).amount))))

calculateTotals(recs) ==
    LET totalIncome  == reduceSum(filterType(recs, Income), Zero)
        totalExpense == reduceSum(filterType(recs, Expense), Zero)
        totalBalance == Minus(totalIncome, totalExpense)
    IN  [totalIncome |-> totalIncome, totalExpense |-> totalExpense,
         totalBalance |-> totalBalance]

\* ------------------------------------------- calculateTotals on its own
SampleTypes == {Income, Expense, <<"i", "n", "c", "o", "m", "e">>, <<"T", "a", "x">>}
SampleAmounts ==
    {Num(-1), Num(0), Num(2), NumV(NaN), NumV(Infinity(1)), Bool(TRUE), Null, Undef,
     Str(<<>>), Str(<<"a">>), Str(<<"1", "2">>), Str(<<"-", "1">>), Str(<<" ", "3">>),
     Str(<<".", "5">>), Str(<<"1", "e", "1">>), Str(<<"0", "x", "f">>),
     Str(<<"-", "I", "n", "f", "i", "n", "i", "t", "y">>), Str(<<"-", "0">>),
     Str(<<"0", ".", "1">>), NumV(StringToNumber(<<"0", ".", "2">>)),
     NumV(StringToNumber(<<"0", ".", "3">>))}
SampleRecords == [type : SampleTypes, amount : SampleAmounts]

InitTotals ==
    /\ sample \in UNION {[1..k -> SampleRecords] : k \in 0..MaxLen}
    /\ totals = <<>>
    /\ users = <<>> /\ records = <<>> /\ nextId = 1
    /\ reqs = [s \in Slots |-> Idle] /\ res = NoRes
    /\ submitted = [i \in Ids |-> <<>>]

CallTotals ==
    /\ totals = <<>>
    /\ totals' = <<calculateTotals(sample)>>
    /\ UNCHANGED <<users, records, nextId, reqs, res, sample, submitted>>

NextTotals == CallTotals

SpecTotals == InitTotals /\ [][NextTotals]_vars

\* ------------------------------------------------------------------ C1
\* The amount a record contributes: the number its amount is as a number, 0
\* when it is not one.
AmountOf(a) ==
    LET of(n) == IF n.k = "nan" THEN Zero ELSE n
    IN  of(Number(a))

RECURSIVE SumAt(_, _, _)
\* The sum of the amounts of the first n records of rs whose type is ty,
\* added one after the other in the order of the records, as doubles are.
SumAt(rs, n, ty) ==
    IF n = 0 THEN Zero
    ELSE Plus(SumAt(rs, n - 1, ty),
              IF rs[n].type = ty THEN AmountOf(rs[n].amount) ELSE Zero)

AllNonNegative(rs) == \A i \in 1..Len(rs) : NonNegative(AmountOf(rs[i].amount))

\* C1: calculateTotals returns totalIncome = the sum of the amounts of the
\* "Income" records, totalExpense = that of the "Expense" records (a
\* non-numeric amount counts 0, any other type counts in neither), and
\* totalBalance = totalIncome - totalExpense; all three are 0 on the empty
\* input, and both sums are >= 0 when every amount is >= 0.
C1_Totals ==
    totals # <<>> =>
        LET t == totals[1] IN
        /\ t.totalIncome = SumAt(sample, Len(sample), Income)
        /\ t.totalExpense = SumAt(sample, Len(sample), Expense)
        /\ t.totalBalance = Minus(t.totalIncome, t.totalExpense)
        /\ (sample = <<>> =>
              t.totalIncome = Zero /\ t.totalExpense = Zero /\ t.totalBalance = Zero)
        /\ (AllNonNegative(sample) =>
              NonNegative(t.totalIncome) /\ NonNegative(t.totalExpense))

\* A call on 0.1 as a string and 0.2 as a number, both Income, has returned
\* their sum as doubles, 0.30000000000000004, which is not the double 0.3.
C1_Witness ==
    /\ totals # <<>>
    /\ Len(sample) = 2
    /\ sample[1].type = Income /\ sample[1].amount = Str(<<"0", ".", "1">>)
    /\ sample[2].type = Income /\ sample[2].amount.t = "num"
    /\ totals[1].totalIncome =
          [k |-> "fin", neg |-> FALSE,
           bits |-> {-2} \cup {-5 - 4 * i : i \in 0..11} \cup {-6 - 4 * i : i \in 0..11}
                        \cup {-52}]
    /\ totals[1].totalBalance # StringToNumber(<<"0", ".", "3">>)

\* -------------------------------------------------------------------- time
\* The calendar, in clock ticks: a day is TicksPerDay ticks, a month
\* DaysPerMonth days, a year MonthsPerYear months.
unitLength(unit) ==
    CASE unit = "day"   -> TicksPerDay
      [] unit = "month" -> TicksPerDay * DaysPerMonth
      [] unit = "year"  -> TicksPerDay * DaysPerMonth * MonthsPerYear

\* dayjs().startOf(unit), .endOf(unit): the first and the last instant of the
\* day, month or year that holds d.
startOf(d, unit) == [d EXCEPT !.t = d.t - (d.t % unitLength(unit))]
endOf(d, unit) == [d EXCEPT !.t = d.t - (d.t % unitLength(unit)) + unitLength(unit) - 1]

\* dayjs: comparisons with an invalid date (NaN) are false.
isBefore(x, y) == x.valid /\ y.valid /\ x.t < y.t
isAfter(x, y) == x.valid /\ y.valid /\ x.t > y.t

\* isBetween with the default "()" inclusivity.
isBetween_Exclusive(d, a, b) ==
    \/ isAfter(d, a) /\ isBefore(d, b)
    \/ isBefore(d, a) /\ isAfter(d, b)

\* recordDate.isBetween(a, b, null, "[]") of the isBetween plugin
isBetween(d, a, b) ==
    \/ ~isBefore(d, a) /\ ~isAfter(d, b)
    \/ ~isAfter(d, a) /\ ~isBefore(d, b)

Today  == <<"t", "o", "d", "a", "y">>
Month  == <<"m", "o", "n", "t", "h">>
Year   == <<"y", "e", "a", "r">>

\* A filter check that lets every filter through.
validFilters_Any(filter) == TRUE

\* validFilters.includes(filter)
validFilters(filter) == filter \in {Today, Month, Year}

\* startDate and endDate of the handler, as <<startDate, endDate>>
window(filter, at) ==
    IF filter = Today THEN <<startOf(at, "day"), endOf(at, "day")>>
    ELSE IF filter = Month THEN <<startOf(at, "month"), endOf(at, "month")>>
    ELSE <<startOf(at, "year"), endOf(at, "year")>>

\* allRecords.filter((r) => dayjs(r.date).isBetween(startDate, endDate, null, "[]"))
filterByWindow(rs, win) ==
    SelectSeq(rs, LAMBDA r : isBetween(r.date, win[1], win[2]))

\* ------------------------------------------------------------------ search
UpperCase == <<"A", "B", "C", "D", "E", "F", "G", "H", "I", "J", "K", "L", "M",
               "N", "O", "P", "Q", "R", "S", "T", "U", "V", "W", "X", "Y", "Z">>
LowerCase == <<"a", "b", "c", "d", "e", "f", "g", "h", "i", "j", "k", "l", "m",
               "n", "o", "p", "q", "r", "s", "t", "u", "v", "w", "x", "y", "z">>

toLower(c) ==
    IF \E i \in 1..Len(UpperCase) : UpperCase[i] = c
    THEN LowerCase[CHOOSE i \in 1..Len(UpperCase) : UpperCase[i] = c]
    ELSE c

\* query.trim() === ""
trimIsEmpty(q) == trim(q) = <<>>

\* --------------------------------------------------- new RegExp(query, "i")
\* The pattern language of RegExp without the u and v flags, with the
\* extensions for web browsers: the pattern is parsed to a tree, or not at
\* all, which is the SyntaxError the constructor throws.
\*
\* The character at index i of a pattern, "" past its end.
Peek(p, i) == IF i \in 1..Len(p) THEN p[i] ELSE ""

isLetter(c) == \E i \in 1..Len(UpperCase) : UpperCase[i] = c \/ LowerCase[i] = c

\* The nodes of the tree are records, k their kind: "char" one character c
\* (a code unit), "any" the dot, "class" a character class, "seq" the terms
\* of an alternative, "alt" two alternatives, "rep" a quantified atom (max -1
\* for no limit; first and count name the groups inside it), "group" a
\* capturing group, "look" a lookahead or lookbehind, "bol" ^, "eol" $,
\* "wordb" \b or \B, "backref" a back reference.
\*
\* The members of a character class: a range of code units or a class escape.
ClassRange(lo, hi) == [k |-> "range", lo |-> lo, hi |-> hi, e |-> ""]
ClassEscape(e) == [k |-> "esc", lo |-> 0, hi |-> 0, e |-> e]
ClassEscapes == {"d", "D", "s", "S", "w", "W"}

\* What a parse returns: no tree, or a tree and where the parse stands: the
\* next index of the pattern, the number of capturing groups opened so far
\* and the names of the named ones.
SyntaxError == [ok |-> FALSE]
Parsed(node, st) == [ok |-> TRUE, node |-> node, st |-> st]
StartOfPattern == [pos |-> 1, groups |-> 0, names |-> <<>>]
Advance(st, n) == [st EXCEPT !.pos = st.pos + n]

\* The index after the longest run of decimal digits that begins at index i.
RECURSIVE DigitRun(_, _)
DigitRun(p, i) == IF IsDigit(Peek(p, i)) THEN DigitRun(p, i + 1) ELSE i

\* The first index from i on that holds ">", 0 for none.
RECURSIVE NameEnd(_, _)
NameEnd(p, i) ==
    IF i > Len(p) THEN 0 ELSE IF p[i] = ">" THEN i ELSE NameEnd(p, i + 1)

\* A group name: an identifier.
IsGroupName(cs) ==
    /\ cs # <<>>
    /\ isLetter(cs[1]) \/ cs[1] \in {"$", "_"}
    /\ \A i \in 1..Len(cs) : isLetter(cs[i]) \/ IsDigit(cs[i]) \/ cs[i] \in {"$", "_"}

\* The number of the group named cs, 0 for none.
GroupNamed(names, cs) ==
    IF \E i \in 1..Len(names) : names[i].name = cs
    THEN names[CHOOSE i \in 1..Len(names) : names[i].name = cs].idx
    ELSE 0

\* {n}, {n,} or {n,m} at index i: max is -1 for no upper bound.
NoQuantifier == [found |-> FALSE, min |-> 0, max |-> 0, next |-> 0]
Braced(p, i) ==
    LET range(a, b, lo) ==
            IF Peek(p, a) = "}"
            THEN [found |-> TRUE, min |-> lo, max |-> lo, next |-> a + 1]
            ELSE IF Peek(p, a) = "," /\ Peek(p, b) = "}"
            THEN [found |-> TRUE, min |-> lo,
                  max |-> IF b = a + 1 THEN -1 ELSE DigitsValue(SubSeq(p, a + 1, b - 1), 10),
                  next |-> b + 1]
            ELSE NoQuantifier
        from(a) ==
            IF Peek(p, i) # "{" \/ a = i + 1 THEN NoQuantifier
            ELSE range(a, DigitRun(p, a + 1), DigitsValue(SubSeq(p, i + 1, a - 1), 10))
    IN  from(DigitRun(p, i + 1))

\* The quantifier at index i, if there is one: *, +, ? or a braced one, and
\* a ? after it for the lazy kind.
QuantifierPrefix(p, i) ==
    LET is(c) ==
            CASE c = "*" -> [found |-> TRUE, min |-> 0, max |-> -1, next |-> i + 1]
              [] c = "+" -> [found |-> TRUE, min |-> 1, max |-> -1, next |-> i + 1]
              [] c = "?" -> [found |-> TRUE, min |-> 0, max |-> 1, next |-> i + 1]
              [] OTHER   -> Braced(p, i)
    IN  is(Peek(p, i))

\* An atom and the quantifier that follows it; {n,m} with n > m is an error.
\* first is the number of groups opened before the atom.
Quantified(p, atom, first) ==
    LET with(q, lazy) ==
            IF ~q.found THEN atom
            ELSE IF q.max # -1 /\ q.min > q.max THEN SyntaxError
            ELSE Parsed([k |-> "rep", body |-> atom.node, min |-> q.min, max |-> q.max,
                         greedy |-> ~lazy, first |-> first,
                         count |-> atom.st.groups - first],
                        [atom.st EXCEPT !.pos = IF lazy THEN q.next + 1 ELSE q.next])
        then(q) == with(q, Peek(p, q.next) = "?")
    IN  then(QuantifierPrefix(p, atom.st.pos))

\* \ooo at index i, an octal digit: up to three octal digits, value below 256.
LegacyOctal(p, i) ==
    LET is(a, two, three) ==
            IF two /\ a <= 3 /\ three
            THEN [ok |-> TRUE, code |-> 64 * a + 8 * DigitVal(p[i + 1]) + DigitVal(p[i + 2]),
                  next |-> i + 3]
            ELSE IF two
            THEN [ok |-> TRUE, code |-> 8 * a + DigitVal(p[i + 1]), next |-> i + 2]
            ELSE [ok |-> TRUE, code |-> a, next |-> i + 1]
    IN  is(DigitVal(p[i]), IsDigitOf(Peek(p, i + 1), 8), IsDigitOf(Peek(p, i + 2), 8))

\* The character escape at index i, a backslash, outside or inside a class:
\* the code unit it denotes and the index after it.  Without the u flag
\* every escape that is no other escape denotes the escaped character, and
\* \c without its letter is the backslash itself.
CharacterEscape(p, i, inClass, named) ==
    LET is(code, n) == [ok |-> TRUE, code |-> code, next |-> i + n]
        at(e, f) ==
            CASE e = "t" -> is(9, 2)
              [] e = "n" -> is(10, 2)
              [] e = "v" -> is(11, 2)
              [] e = "f" -> is(12, 2)
              [] e = "r" -> is(13, 2)
              [] e = "c" ->
                    IF isLetter(f) \/ (inClass /\ (IsDigit(f) \/ f = "_"))
                    THEN is(Code(f) % 32, 3)
                    ELSE is(92, 1)
              [] IsDigitOf(e, 8) -> LegacyOctal(p, i + 1)
              [] e = "x" ->
                    IF IsDigitOf(f, 16) /\ IsDigitOf(Peek(p, i + 3), 16)
                    THEN is(DigitsValue(SubSeq(p, i + 2, i + 3), 16), 4)
                    ELSE is(Code(e), 2)
              [] e = "u" ->
                    IF \A j \in 2..5 : IsDigitOf(Peek(p, i + j), 16)
                    THEN is(DigitsValue(SubSeq(p, i + 2, i + 5), 16), 6)
                    ELSE is(Code(e), 2)
              [] e = "k" /\ named -> [ok |-> FALSE, code |-> 0, next |-> 0]
              [] OTHER -> is(Code(e), 2)
    IN  at(Peek(p, i + 1), Peek(p, i + 2))

\* One atom of a class at index i.
ClassAtom(p, i, named) ==
    LET escaped(e, esc) ==
            IF e = "" THEN [ok |-> FALSE, item |-> ClassEscape(""), next |-> 0]
            ELSE IF e \in ClassEscapes
            THEN [ok |-> TRUE, item |-> ClassEscape(e), next |-> i + 2]
            ELSE IF e = "b"
            THEN [ok |-> TRUE, item |-> ClassRange(8, 8), next |-> i + 2]
            ELSE [ok |-> esc.ok, item |-> ClassRange(esc.code, esc.code), next |-> esc.next]
        plain(code) == [ok |-> TRUE, item |-> ClassRange(code, code), next |-> i + 1]
    IN  IF p[i] # "\\" THEN plain(Code(p[i]))
        ELSE escaped(Peek(p, i + 1), CharacterEscape(p, i, TRUE, named))

\* The members of a class from index i up to its "]": a - between two atoms
\* makes a range, which is an error when out of order; next to a class
\* escape the - is itself a member.
RECURSIVE ClassRanges(_, _, _, _)
ClassRanges(p, i, named, items) ==
    LET fail == [ok |-> FALSE, items |-> <<>>, next |-> 0]
        pair(a, b) ==
            IF ~b.ok THEN fail
            ELSE IF a.item.k = "esc" \/ b.item.k = "esc"
            THEN ClassRanges(p, b.next, named,
                             items \o <<a.item, ClassRange(45, 45), b.item>>)
            ELSE IF a.item.lo > b.item.lo THEN fail
            ELSE ClassRanges(p, b.next, named,
                             Append(items, ClassRange(a.item.lo, b.item.lo)))
        one(a) ==
            IF ~a.ok THEN fail
            ELSE IF Peek(p, a.next) = "-" /\ Peek(p, a.next + 1) \notin {"]", ""}
            THEN pair(a, ClassAtom(p, a.next + 1, named))
            ELSE ClassRanges(p, a.next, named, Append(items, a.item))
    IN  IF i > Len(p) THEN fail
        ELSE IF p[i] = "]" THEN [ok |-> TRUE, items |-> items, next |-> i + 1]
        ELSE one(ClassAtom(p, i, named))

\* [ ... ] or [^ ... ] at st.pos
ParseClass(p, cfg, st) ==
    LET made(neg, r) ==
            IF r.ok THEN Parsed([k |-> "class", neg |-> neg, items |-> r.items],
                                [st EXCEPT !.pos = r.next])
            ELSE SyntaxError
        from(neg) ==
            made(neg, ClassRanges(p, IF neg THEN st.pos + 2 ELSE st.pos + 1,
                                  cfg.named, <<>>))
    IN  from(Peek(p, st.pos + 1) = "^")

\* The escape at st.pos, a backslash, as an atom: a back reference when the
\* number is that of a group of the pattern (cfg.total of them) or the name
\* that of a named one, a class escape, or a character escape.
AtomEscape(p, cfg, st) ==
    LET i == st.pos
        backTo(idx, next) ==
            Parsed([k |-> "backref", idx |-> idx], [st EXCEPT !.pos = next])
        byName(close, idx) ==
            IF Peek(p, i + 2) = "<" /\ close # 0 /\ idx # 0
            THEN backTo(idx, close + 1)
            ELSE SyntaxError
        named(close) ==
            byName(close, GroupNamed(cfg.names, SubSeq(p, i + 3, close - 1)))
        character(esc) ==
            IF esc.ok THEN Parsed([k |-> "char", c |-> esc.code],
                                  [st EXCEPT !.pos = esc.next])
            ELSE SyntaxError
        at(e, j, n) ==
            IF e = "" THEN SyntaxError
            ELSE IF IsDigit(e) /\ e # "0" /\ n <= cfg.total THEN backTo(n, j)
            ELSE IF e = "k" /\ cfg.named THEN named(NameEnd(p, i + 3))
            ELSE IF e \in ClassEscapes
            THEN Parsed([k |-> "class", neg |-> FALSE, items |-> <<ClassEscape(e)>>],
                        Advance(st, 2))
            ELSE character(CharacterEscape(p, i, FALSE, cfg.named))
        digits(j) == at(Peek(p, i + 1), j, DigitsValue(SubSeq(p, i + 1, j - 1), 10))
    IN  digits(DigitRun(p, i + 1))

RECURSIVE ParseDisjunction(_, _, _)
RECURSIVE ParseAlternative(_, _, _, _)
RECURSIVE ParseTerm(_, _, _)
RECURSIVE ParseAtom(_, _, _)
RECURSIVE ParseGroup(_, _, _)

\* inner is the parse of what follows an opening bracket: the ")" that must
\* come next is taken.
Closed(p, inner) == inner.ok /\ Peek(p, inner.st.pos) = ")"

\* ( ... ), (?: ... ) or (?<name> ... ) at st.pos; a group is numbered by its
\* opening bracket, and a name is used once.
ParseGroup(p, cfg, st) ==
    LET i == st.pos
        idx == st.groups + 1
        group(inner) ==
            IF Closed(p, inner)
            THEN Parsed([k |-> "group", idx |-> idx, body |-> inner.node],
                        Advance(inner.st, 1))
            ELSE SyntaxError
        bare(inner) ==
            IF Closed(p, inner) THEN Parsed(inner.node, Advance(inner.st, 1))
            ELSE SyntaxError
        called(close, name) ==
            IF /\ Peek(p, i + 2) = "<" /\ close # 0 /\ IsGroupName(name)
               /\ GroupNamed(st.names, name) = 0
            THEN group(ParseDisjunction(p, cfg,
                          [pos |-> close + 1, groups |-> idx,
                           names |-> Append(st.names, [name |-> name, idx |-> idx])]))
            ELSE SyntaxError
        named(close) == called(close, SubSeq(p, i + 3, close - 1))
    IN  IF Peek(p, i + 1) # "?"
        THEN group(ParseDisjunction(p, cfg, [st EXCEPT !.pos = i + 1, !.groups = idx]))
        ELSE IF Peek(p, i + 2) = ":"
        THEN bare(ParseDisjunction(p, cfg, Advance(st, 3)))
        ELSE named(NameEnd(p, i + 3))

\* An atom at st.pos.  A quantifier with nothing to repeat is an error, and
\* so is a ")" that closes nothing; "]", "}" and a "{" that begins no
\* quantifier are themselves.
ParseAtom(p, cfg, st) ==
    LET itself(c) == Parsed([k |-> "char", c |-> Code(c)], Advance(st, 1))
        at(c) ==
            CASE c = "."  -> Parsed([k |-> "any"], Advance(st, 1))
              [] c = "\\" -> AtomEscape(p, cfg, st)
              [] c = "["  -> ParseClass(p, cfg, st)
              [] c = "("  -> ParseGroup(p, cfg, st)
              [] c \in {"*", "+", "?", ")", "|"} -> SyntaxError
              [] OTHER    -> IF c = "{" /\ Braced(p, st.pos).found THEN SyntaxError
                             ELSE itself(c)
    IN  at(p[st.pos])

\* A term at st.pos: an assertion, which takes no quantifier unless it is a
\* lookahead, or an atom and its quantifier.
ParseTerm(p, cfg, st) ==
    LET i == st.pos
        look(behind, neg, inner) ==
            IF Closed(p, inner)
            THEN Parsed([k |-> "look", behind |-> behind, neg |-> neg,
                         body |-> inner.node],
                        Advance(inner.st, 1))
            ELSE SyntaxError
        quantify(atom) ==
            IF atom.ok THEN Quantified(p, atom, st.groups) ELSE SyntaxError
        at(c, d, e, f) ==
            CASE c = "^" -> Parsed([k |-> "bol"], Advance(st, 1))
              [] c = "$" -> Parsed([k |-> "eol"], Advance(st, 1))
              [] c = "\\" /\ d \in {"b", "B"} ->
                    Parsed([k |-> "wordb", neg |-> d = "B"], Advance(st, 2))
              [] c = "(" /\ d = "?" /\ e = "<" /\ f \in {"=", "!"} ->
                    look(TRUE, f = "!", ParseDisjunction(p, cfg, Advance(st, 4)))
              [] OTHER ->
                    quantify(IF c = "(" /\ d = "?" /\ e \in {"=", "!"}
                             THEN look(FALSE, e = "!",
                                       ParseDisjunction(p, cfg, Advance(st, 3)))
                             ELSE ParseAtom(p, cfg, st))
    IN  at(p[i], Peek(p, i + 1), Peek(p, i + 2), Peek(p, i + 3))

\* The terms from st.pos up to a "|", a ")" or the end of the pattern.
ParseAlternative(p, cfg, st, terms) ==
    LET then(t) ==
            IF ~t.ok THEN SyntaxError
            ELSE ParseAlternative(p, cfg, t.st, Append(terms, t.node))
    IN  IF Peek(p, st.pos) \in {"", "|", ")"}
        THEN Parsed([k |-> "seq", items |-> terms], st)
        ELSE then(ParseTerm(p, cfg, st))

\* Alternatives with "|" between them, from st.pos on.
ParseDisjunction(p, cfg, st) ==
    LET or(a, rest) ==
            IF ~rest.ok THEN SyntaxError
            ELSE Parsed([k |-> "alt", a |-> a.node, b |-> rest.node], rest.st)
        then(a) ==
            IF ~a.ok THEN SyntaxError
            ELSE IF Peek(p, a.st.pos) # "|" THEN a
            ELSE or(a, ParseDisjunction(p, cfg, Advance(a.st, 1)))
    IN  then(ParseAlternative(p, cfg, st, <<>>))

\* new RegExp(pattern): the pattern is parsed once to find its groups, and
\* again knowing them, since \1 and \k<name> read as back references only
\* when the pattern has such groups.  The whole pattern must be taken.
Compile(p) ==
    LET whole(r) == r.ok /\ r.st.pos = Len(p) + 1
        compiled(total, again) ==
            IF whole(again)
            THEN [ok |-> TRUE, node |-> again.node, groups |-> total]
            ELSE SyntaxError
        second(first) ==
            IF ~whole(first) THEN SyntaxError
            ELSE compiled(first.st.groups,
                          ParseDisjunction(p, [total |-> first.st.groups,
                                               named |-> first.st.names # <<>>,
                                               names |-> first.st.names],
                                           StartOfPattern))
    IN  second(ParseDisjunction(p, [total |-> 0, named |-> FALSE, names |-> <<>>],
                                StartOfPattern))

\* new RegExp(query, "i") returns: it throws a SyntaxError otherwise.
regExpCompiles(q) == Compile(q).ok

\* ------------------------------------------------------------ regex.test
\* The matcher, flag "i" set.  A state is an index into the string (the
\* number of characters before it) and the captures, <<>> for one not set.
\* Each node gives, for a state, the states it can end in, in the order in
\* which backtracking tries them.
\*
\* Canonicalize: with flag "i" characters are compared by their upper case.
Canonicalize(code) == IF code \in 97..122 THEN code - 32 ELSE code

\* The same letter in the other case.
OtherCase(code) ==
    IF code \in 97..122 THEN code - 32
    ELSE IF code \in 65..90 THEN code + 32
    ELSE code

LineTerminators == {10, 13, 8232, 8233}
IsWordChar(code) ==
    code \in (48..57) \cup (65..90) \cup (97..122) \cup {95}

\* code is a member of a range or of a class escape.
InClassItem(item, code) ==
    CASE item.k = "range" -> item.lo <= code /\ code <= item.hi
      [] item.e = "d" -> code \in 48..57
      [] item.e = "D" -> code \notin 48..57
      [] item.e = "s" -> code \in WhiteSpaceCodes
      [] item.e = "S" -> code \notin WhiteSpaceCodes
      [] item.e = "w" -> IsWordChar(code)
      [] item.e = "W" -> ~IsWordChar(code)

\* A class accepts a character when a member has its upper case.
ClassAccepts(n, code) ==
    LET found == \E i \in 1..Len(n.items) :
                    \/ InClassItem(n.items[i], code)
                    \/ InClassItem(n.items[i], OtherCase(code))
    IN  IF n.neg THEN ~found ELSE found

\* The code unit the matcher reads next in state x, -1 for none: the one
\* after the index when it goes forward, the one before it in a lookbehind.
Reads(x, str, dir) ==
    LET i == IF dir = 1 THEN x.pos + 1 ELSE x.pos
    IN  IF i \in 1..Len(str) THEN str[i] ELSE -1

\* One character is taken when there is one and it is accepted.
Take(x, dir, accepted) ==
    IF accepted THEN <<[x EXCEPT !.pos = x.pos + dir]>> ELSE <<>>

\* \N: the capture of group idx is read again, letter case ignored; a
\* capture that is not set matches the empty string.
MatchBackReference(idx, x, str, dir) ==
    LET cap == x.caps[idx]
        len == cap[2] - cap[1]
        from == IF dir = 1 THEN x.pos ELSE x.pos - len
    IN  IF cap = <<>> THEN <<x>>
        ELSE IF /\ from >= 0 /\ from + len <= Len(str)
                /\ \A i \in 1..len :
                      Canonicalize(str[cap[1] + i]) = Canonicalize(str[from + i])
        THEN <<[x EXCEPT !.pos = x.pos + dir * len]>>
        ELSE <<>>

RECURSIVE Match(_, _, _, _)
RECURSIVE MatchEach(_, _, _, _)
RECURSIVE MatchSeq(_, _, _, _)
RECURSIVE Repeat(_, _, _, _, _, _)
RECURSIVE RepeatEach(_, _, _, _, _, _, _)

\* node from each of the states xs, in their order.
MatchEach(node, xs, str, dir) ==
    IF xs = <<>> THEN <<>>
    ELSE Match(node, Head(xs), str, dir) \o MatchEach(node, Tail(xs), str, dir)

\* The terms of an alternative one after the other: left to right going
\* forward, right to left in a lookbehind.
MatchSeq(items, xs, str, dir) ==
    IF items = <<>> THEN xs
    ELSE IF dir = 1
    THEN MatchSeq(Tail(items), MatchEach(Head(items), xs, str, dir), str, dir)
    ELSE MatchSeq(SubSeq(items, 1, Len(items) - 1),
                  MatchEach(items[Len(items)], xs, str, dir), str, dir)

\* RepeatMatcher: the body between min and max times more (max -1 for no
\* limit) from state x.  The captures of the groups of the body are cleared
\* before each round, a round past min that takes no character is dropped,
\* and a greedy quantifier tries one more round before it tries to stop.
Repeat(n, min, max, x, str, dir) ==
    LET cleared == [x EXCEPT !.caps =
                      [g \in DOMAIN x.caps |->
                          IF g > n.first /\ g <= n.first + n.count
                          THEN <<>> ELSE x.caps[g]]]
        or(more) ==
            IF min # 0 THEN more
            ELSE IF n.greedy THEN Append(more, x)
            ELSE <<x>> \o more
    IN  IF max = 0 THEN <<x>>
        ELSE or(RepeatEach(n, min, max, x, Match(n.body, cleared, str, dir), str, dir))

RepeatEach(n, min, max, x, ys, str, dir) ==
    IF ys = <<>> THEN <<>>
    ELSE (IF min = 0 /\ Head(ys).pos = x.pos THEN <<>>
          ELSE Repeat(n, IF min = 0 THEN 0 ELSE min - 1,
                      IF max = -1 THEN -1 ELSE max - 1, Head(ys), str, dir))
         \o RepeatEach(n, min, max, x, Tail(ys), str, dir)

Match(n, x, str, dir) ==
    LET inner == Match(n.body, x, str, dir)
        looked == Match(n.body, x, str, IF n.behind THEN -1 ELSE 1)
        accepts(ch) ==
            CASE n.k = "char" -> Canonicalize(ch) = Canonicalize(n.c)
              [] n.k = "any" -> ch \notin LineTerminators
              [] n.k = "class" -> ClassAccepts(n, ch)
        read(ch) == Take(x, dir, ch # -1 /\ accepts(ch))
    IN  CASE n.k \in {"char", "any", "class"} -> read(Reads(x, str, dir))
          [] n.k = "seq" -> MatchSeq(n.items, <<x>>, str, dir)
          [] n.k = "alt" -> Match(n.a, x, str, dir) \o Match(n.b, x, str, dir)
          [] n.k = "rep" -> Repeat(n, n.min, n.max, x, str, dir)
          [] n.k = "group" ->
                [i \in 1..Len(inner) |->
                    [inner[i] EXCEPT !.caps[n.idx] =
                        IF dir = 1 THEN <<x.pos, inner[i].pos>>
                        ELSE <<inner[i].pos, x.pos>>]]
          [] n.k = "look" ->
                IF n.neg THEN (IF looked = <<>> THEN <<x>> ELSE <<>>)
                ELSE IF looked = <<>> THEN <<>>
                ELSE <<[x EXCEPT !.caps = looked[1].caps]>>
          [] n.k = "bol" -> IF x.pos = 0 THEN <<x>> ELSE <<>>
          [] n.k = "eol" -> IF x.pos = Len(str) THEN <<x>> ELSE <<>>
          [] n.k = "wordb" ->
                IF (IsWordChar(Reads(x, str, -1)) # IsWordChar(Reads(x, str, 1))) # n.neg
                THEN <<x>> ELSE <<>>
          [] n.k = "backref" -> MatchBackReference(n.idx, x, str, dir)

\* new RegExp(q, "i").test(str): the pattern matches from some index of str.
\* q is a pattern that compiles.
regexTest(q, str) ==
    LET codes == [i \in 1..Len(str) |-> Code(str[i])]
        test(re) ==
            \E start \in 0..Len(str) :
                Match(re.node, [pos |-> start, caps |-> [g \in 1..re.groups |-> <<>>]],
                      codes, 1) # <<>>
    IN  test(Compile(q))

\* Expense.find({ $or: [{category}, {description}, {type}] }), every owner:
\* a field the document does not have matches nothing.
searchRecords(rs, q) ==
    SelectSeq(rs, LAMBDA r :
        \E f \in {"category", "description", "type"} :
            f \in r.has /\ regexTest(q, r[f]))

\* ---------------------------------------------------------------- register

\* [a-zA-Z0-9._%+-] and [a-zA-Z0-9.-]
isLocalChar(c) == isLetter(c) \/ IsDigit(c) \/ c \in {".", "_", "%", "+", "-"}
isDomainChar(c) == isLetter(c) \/ IsDigit(c) \/ c \in {".", "-"}

\* /^[a-zA-Z0-9._%+-]+@[a-zA-Z0-9.-]+\.[a-zA-Z]{2,}$/.test(email)
emailRegex(e) ==
    \E at \in 2..Len(e) : \E dot \in (at + 2)..(Len(e) - 2) :
        /\ e[at] = "@" /\ e[dot] = "."
        /\ \A i \in 1..(at - 1) : isLocalChar(e[i])
        /\ \A i \in (at + 1)..(dot - 1) : isDomainChar(e[i])
        /\ \A i \in (dot + 1)..Len(e) : isLetter(e[i])

\* User.findOne({ email }) is not null
emailTaken(us, email) == \E i \in 1..Len(us) : us[i].email = email

\* A users collection without the unique index on email.
uniqueEmail_NoIndex(us, email) == TRUE

\* The users collection accepts a document with this email: email is unique.
uniqueEmail(us, email) == ~emailTaken(us, email)

\* ------------------------------------------------------------ record store
\* A find without the userId condition.
findByUser_AnyOwner(rs, uid) == rs

\* Expense.find({ userId }), in natural order
findByUser(rs, uid) == SelectSeq(rs, LAMBDA r : r.userId = uid)

\* Expense.findById(id): the document, <<>> for null
findById(rs, id) == SelectSeq(rs, LAMBDA r : r.id = id)

\* The fields a document can have beside its id and its owner.
DocumentFields == {"type", "amount", "category", "date", "description"}

\* A document that drops the description of the body.
newDocument_NoDescription(id, uid, body) ==
    [id |-> id, userId |-> uid, has |-> (body.has \cap DocumentFields) \ {"description"},
     type |-> body.type, amount |-> body.amount,
     category |-> IF Has(body, "category") THEN body.category ELSE <<>>,
     date |-> body.date, description |-> <<>>]

\* The document Expense.create stores for a create-expense body: has names the
\* fields the body gave, a field it did not give is not stored.
newDocument(id, uid, body) ==
    [id |-> id, userId |-> uid, has |-> body.has \cap DocumentFields,
     type |-> body.type, amount |-> body.amount,
     category |-> IF Has(body, "category") THEN body.category ELSE <<>>,
     date |-> body.date,
     description |-> IF Has(body, "description") THEN body.description ELSE <<>>]

\* findByIdAndUpdate(id, body, { new: true }): the fields the body names are
\* replaced, the others kept.
applyUpdate(r, body) ==
    [id |-> r.id, userId |-> r.userId, has |-> r.has \cup (body.has \cap DocumentFields),
     type |-> IF Has(body, "type") THEN body.type ELSE r.type,
     amount |-> IF Has(body, "amount") THEN body.amount ELSE r.amount,
     category |-> IF Has(body, "category") THEN body.category ELSE r.category,
     date |-> IF Has(body, "date") THEN body.date ELSE r.date,
     description |-> IF Has(body, "description") THEN body.description
                     ELSE r.description]

updateById(rs, id, body) ==
    [i \in 1..Len(rs) |-> IF rs[i].id = id THEN applyUpdate(rs[i], body) ELSE rs[i]]

\* findByIdAndDelete(id)
deleteById(rs, id) == SelectSeq(rs, LAMBDA r : r.id # id)

\* ----------------------------------------------------------- create-expense
\* !type || !amount || !date
missingRequired(body) ==
    \/ ~Has(body, "type") \/ body.type = <<>>
    \/ ~Has(body, "amount") \/ ~truthy(body.amount)
    \/ ~Has(body, "date") \/ body.date.falsy

\* dayjs(date).isValid()
isValid(d) == d.valid

\* ------------------------------------------------------------- the requests
\* A request for route op arrives in a free slot and authMiddleware runs up to
\* its await of User.findById: no "Bearer " header, or a token jwt.verify
\* rejects, is answered 401 at once.
Receive(s, op, tok) ==
    /\ reqs[s].pc = "idle"
    /\ \A z \in Slots : z < s => reqs[z].pc # "idle"
    /\ LET r == [Idle EXCEPT !.op = op, !.tok = tok] IN
       IF ~hasBearer(tok) \/ ~jwtVerify(tok)
       THEN Respond(s, r, 401, <<>>, <<>>)
       ELSE Await(s, [r EXCEPT !.pc = "auth"])
    /\ UNCHANGED <<users, records, nextId, sample, totals, submitted>>

\* next(): the handler reads its inputs and runs up to its first await.
enter(s, r) ==
    CASE r.op = "create" ->
            IF missingRequired(r.args.body) \/ ~isValid(r.args.body.date)
            THEN Respond(s, r, 400, <<>>, <<>>)
            ELSE Await(s, [r EXCEPT !.pc = "insert"])
      [] r.op = "getAll" -> Await(s, [r EXCEPT !.pc = "find"])
      [] r.op = "getOne" -> Await(s, [r EXCEPT !.pc = "findById"])
      [] r.op = "put"    -> Await(s, [r EXCEPT !.pc = "update"])
      [] r.op = "delete" -> Await(s, [r EXCEPT !.pc = "remove"])
      [] r.op = "byTime" ->
            IF ~validFilters(r.args.filter)
            THEN Respond(s, r, 400, <<>>, <<>>)
            ELSE \E now \in 0..MaxNow :
                    Await(s, [r EXCEPT !.pc = "find", !.at = now,
                                       !.win = window(r.args.filter, D(now))])
      [] r.op = "search" ->
            IF r.args.query = <<>> \/ trimIsEmpty(r.args.query)
            THEN Respond(s, r, 400, <<>>, <<>>)
            ELSE IF ~regExpCompiles(r.args.query)
            THEN Respond(s, r, 500, <<>>, <<>>)
            ELSE Await(s, [r EXCEPT !.pc = "find"])

\* authMiddleware after User.findById: a store failure or no such user is
\* answered 401, otherwise req.user is set and the handler is entered with
\* the body, parameters and query string of the request, one of Inputs.
Authorize(s, Inputs) ==
    /\ reqs[s].pc = "auth"
    /\ \E fail \in BOOLEAN :
        LET r == reqs[s] IN
        IF fail \/ ~userFound(users, r.tok.userId)
        THEN Respond(s, r, 401, <<>>, <<>>)
        ELSE \E q \in Inputs :
                /\ q.op = r.op
                /\ enter(s, [r EXCEPT !.user = r.tok.userId, !.args = q.args])
    /\ UNCHANGED <<users, records, nextId, sample, totals, submitted>>

\* create-expense, Expense.create: a failure is answered 500.
CreateInsert(s) ==
    /\ reqs[s].op = "create" /\ reqs[s].pc = "insert"
    /\ \E fail \in BOOLEAN :
        LET r == reqs[s]
            newRecord == newDocument(nextId, r.user, r.args.body)
        IN  IF fail
            THEN Respond(s, r, 500, <<>>, <<>>)
                 /\ UNCHANGED <<records, nextId, submitted>>
            ELSE /\ records' = Append(records, newRecord)
                 /\ nextId' = nextId + 1
                 /\ submitted' = [submitted EXCEPT ![nextId] =
                                    <<[body |-> r.args.body, user |-> r.user]>>]
                 /\ Await(s, [r EXCEPT !.pc = "totals", !.rec = <<newRecord>>])
    /\ UNCHANGED <<users, sample, totals>>

\* create-expense, Expense.find({ userId }) and the 201 with the totals.
CreateTotals(s) ==
    /\ reqs[s].op = "create" /\ reqs[s].pc = "totals"
    /\ \E fail \in BOOLEAN :
        LET r == reqs[s]
            allRecords == findByUser(records, r.user)
        IN  IF fail
            THEN Respond(s, r, 500, <<>>, <<>>)
            ELSE Respond(s, r, 201, r.rec, <<calculateTotals(allRecords)>>)
    /\ UNCHANGED <<users, records, nextId, sample, totals, submitted>>

\* all-expenses: Expense.find({ userId }), the totals over what it returned.
GetAll(s) ==
    /\ reqs[s].op = "getAll" /\ reqs[s].pc = "find"
    /\ \E fail \in BOOLEAN :
        LET r == reqs[s]
            found == findByUser(records, r.user)
        IN  IF fail
            THEN Respond(s, r, 500, <<>>, <<>>)
            ELSE Respond(s, r, 200, found, <<calculateTotals(found)>>)
    /\ UNCHANGED <<users, records, nextId, sample, totals, submitted>>

\* GET expense/:id: Expense.findById, 404 when null.
GetOne(s) ==
    /\ reqs[s].op = "getOne" /\ reqs[s].pc = "findById"
    /\ \E fail \in BOOLEAN :
        LET r == reqs[s]
            record == findById(records, r.args.id)
        IN  IF fail THEN Respond(s, r, 500, <<>>, <<>>)
            ELSE IF record = <<>> THEN Respond(s, r, 404, <<>>, <<>>)
            ELSE Respond(s, r, 200, record, <<>>)
    /\ UNCHANGED <<users, records, nextId, sample, totals, submitted>>

\* PUT expense/:id, findByIdAndUpdate: 404 when null.
PutUpdate(s) ==
    /\ reqs[s].op = "put" /\ reqs[s].pc = "update"
    /\ \E fail \in BOOLEAN :
        LET r == reqs[s]
            after == updateById(records, r.args.id, r.args.body)
            updatedRecord == findById(after, r.args.id)
        IN  IF fail THEN Respond(s, r, 500, <<>>, <<>>) /\ UNCHANGED <<records, submitted>>
            ELSE IF updatedRecord = <<>>
            THEN Respond(s, r, 404, <<>>, <<>>) /\ UNCHANGED <<records, submitted>>
            ELSE /\ records' = after
                 /\ submitted' = [submitted EXCEPT ![r.args.id] = <<>>]
                 /\ Await(s, [r EXCEPT !.pc = "totals", !.rec = updatedRecord])
    /\ UNCHANGED <<users, nextId, sample, totals>>

\* DELETE expense/:id, findByIdAndDelete: 404 when null.
DeleteRemove(s) ==
    /\ reqs[s].op = "delete" /\ reqs[s].pc = "remove"
    /\ \E fail \in BOOLEAN :
        LET r == reqs[s]
            deletedRecord == findById(records, r.args.id)
        IN  IF fail THEN Respond(s, r, 500, <<>>, <<>>) /\ UNCHANGED <<records, submitted>>
            ELSE IF deletedRecord = <<>>
            THEN Respond(s, r, 404, <<>>, <<>>) /\ UNCHANGED <<records, submitted>>
            ELSE /\ records' = deleteById(records, r.args.id)
                 /\ submitted' = [submitted EXCEPT ![r.args.id] = <<>>]
                 /\ Await(s, [r EXCEPT !.pc = "totals", !.rec = deletedRecord])
    /\ UNCHANGED <<users, nextId, sample, totals>>

\* A find scoped to the caller, as create-expense and all-expenses use.
findForMutation_OwnerOnly(rs, uid) == SelectSeq(rs, LAMBDA r : r.userId = uid)

\* Expense.find() of PUT and DELETE: every record of the store, whoever the
\* caller uid is
findForMutation(rs, uid) == rs

\* PUT expense/:id, Expense.find() and the 200 with the totals.
PutTotals(s) ==
    /\ reqs[s].op = "put" /\ reqs[s].pc = "totals"
    /\ \E fail \in BOOLEAN :
        LET r == reqs[s]
            allRecords == findForMutation(records, r.user)
        IN  IF fail
            THEN Respond(s, r, 500, <<>>, <<>>)
            ELSE Respond(s, r, 200, r.rec, <<calculateTotals(allRecords)>>)
    /\ UNCHANGED <<users, records, nextId, sample, totals, submitted>>

\* DELETE expense/:id, Expense.find() and the 200 with the totals.
DeleteTotals(s) ==
    /\ reqs[s].op = "delete" /\ reqs[s].pc = "totals"
    /\ \E fail \in BOOLEAN :
        LET r == reqs[s]
            allRecords == findForMutation(records, r.user)
        IN  IF fail
            THEN Respond(s, r, 500, <<>>, <<>>)
            ELSE Respond(s, r, 200, r.rec, <<calculateTotals(allRecords)>>)
    /\ UNCHANGED <<users, records, nextId, sample, totals, submitted>>

\* expenses-by-time: Expense.find({ userId }) and the filter by the window.
ByTime(s) ==
    /\ reqs[s].op = "byTime" /\ reqs[s].pc = "find"
    /\ \E fail \in BOOLEAN :
        LET r == reqs[s]
            allRecords == findByUser(records, r.user)
        IN  IF fail
            THEN Respond(s, r, 500, <<>>, <<>>)
            ELSE Respond(s, r, 200, filterByWindow(allRecords, r.win), <<>>)
    /\ UNCHANGED <<users, records, nextId, sample, totals, submitted>>

\* search-expenses: Expense.find({ $or: ... }) over the collection.
Search(s) ==
    /\ reqs[s].op = "search" /\ reqs[s].pc = "find"
    /\ \E fail \in BOOLEAN :
        LET r == reqs[s]
            results == searchRecords(records, r.args.query)
        IN  IF fail
            THEN Respond(s, r, 500, <<>>, <<>>)
            ELSE Respond(s, r, 200, results, <<>>)
    /\ UNCHANGED <<users, records, nextId, sample, totals, submitted>>

\* POST /register up to its await of User.findOne: a missing field or an
\* email the pattern rejects is answered 400.
Register(s, body) ==
    /\ reqs[s].pc = "idle"
    /\ \A z \in Slots : z < s => reqs[z].pc # "idle"
    /\ LET r == [Idle EXCEPT !.op = "register", !.args = [NoArgs EXCEPT !.body = body]] IN
       IF \/ ~Has(body, "name") \/ body.name = <<>>
          \/ ~Has(body, "email") \/ body.email = <<>>
          \/ ~Has(body, "password") \/ body.password = <<>>
       THEN Respond(s, r, 400, <<>>, <<>>)
       ELSE IF ~emailRegex(body.email)
       THEN Respond(s, r, 400, <<>>, <<>>)
       ELSE Await(s, [r EXCEPT !.pc = "findOne"])
    /\ UNCHANGED <<users, records, nextId, sample, totals, submitted>>

\* register, User.findOne({ email }): 400 when a user has the email.
RegisterFindOne(s) ==
    /\ reqs[s].op = "register" /\ reqs[s].pc = "findOne"
    /\ \E fail \in BOOLEAN :
        LET r == reqs[s] IN
        IF fail THEN Respond(s, r, 500, <<>>, <<>>)
        ELSE IF emailTaken(users, r.args.body.email)
        THEN Respond(s, r, 400, <<>>, <<>>)
        ELSE Await(s, [r EXCEPT !.pc = "hash"])
    /\ UNCHANGED <<users, records, nextId, sample, totals, submitted>>

\* register, bcrypt.hash(password, 10): a salted hash of the password, or
\* 500 when it rejects.
RegisterHash(s) ==
    /\ reqs[s].op = "register" /\ reqs[s].pc = "hash"
    /\ \E salt \in {1, 2}, fail \in BOOLEAN :
        LET r == reqs[s]
            hashedPassword == [plain |-> r.args.body.password, salt |-> salt]
        IN  IF fail THEN Respond(s, r, 500, <<>>, <<>>)
            ELSE Await(s, [r EXCEPT !.pc = "insert", !.rec = <<hashedPassword>>])
    /\ UNCHANGED <<users, records, nextId, sample, totals, submitted>>

\* register, User.create: a store failure, or an email the collection
\* already holds, is answered 500; otherwise the user is stored and 201 sent.
RegisterCreate(s) ==
    /\ reqs[s].op = "register" /\ reqs[s].pc = "insert"
    /\ \E fail \in BOOLEAN :
        LET r == reqs[s]
            user == [id |-> Len(users) + 1, name |-> r.args.body.name,
                     email |-> r.args.body.email, password |-> r.rec[1]]
        IN  IF fail \/ ~uniqueEmail(users, user.email)
            THEN Respond(s, r, 500, <<>>, <<>>) /\ UNCHANGED users
            ELSE /\ users' = Append(users, user)
                 /\ Respond(s, [r EXCEPT !.rec = <<>>], 201, <<user>>, <<>>)
    /\ UNCHANGED <<records, nextId, sample, totals, submitted>>

\* ------------------------------------------------------------ record CRUD
Alice == [id |-> 1, name |-> <<"A">>, email |-> <<"a", "@", "x", ".", "i", "o">>,
          password |-> [plain |-> <<"p">>, salt |-> 1]]
Bob   == [id |-> 2, name |-> <<"B">>, email |-> <<"b", "@", "x", ".", "i", "o">>,
          password |-> [plain |-> <<"q">>, salt |-> 2]]

\* The bearer credentials a request may carry; user 3 is in no store.
Tokens ==
    {[kind |-> k, userId |-> 1] :
        k \in {"absent", "nobearer", "malformed", "badsig", "expired"}}
    \cup {[kind |-> "valid", userId |-> u] : u \in 1..3}

\* The credentials login has issued to the two users of the store.
LoggedIn == {[kind |-> "valid", userId |-> u] : u \in 1..2}

Body(type, amount, date) ==
    [NoBody EXCEPT !.has = {"type", "amount", "date"},
                   !.type = type, !.amount = amount, !.date = date]

Food == <<"F", "o", "o", "d">>

CrudCreateBodies ==
    {Body(Income, Num(1), D(0)), Body(Income, Num(-1), D(0)),
     [Body(Expense, Num(2), D(1)) EXCEPT
        !.has = {"type", "amount", "date", "category", "description"},
        !.category = Food, !.description = <<"x">>],
     Body(<<>>, Num(1), D(0)), Body(Income, Num(0), D(0)),
     Body(Income, Num(1), BadDate), Body(Income, Num(1), FalsyDate(TRUE)),
     [Body(Income, Num(1), D(0)) EXCEPT !.has = {"type", "amount"}]}

CrudRequests ==
    {[op |-> "create", args |-> [NoArgs EXCEPT !.body = b]] : b \in CrudCreateBodies}
    \cup {[op |-> "getAll", args |-> NoArgs]}
    \cup {[op |-> o, args |-> [NoArgs EXCEPT !.id = i]] :
            o \in {"getOne", "delete"}, i \in Ids}
    \cup {[op |-> "put", args |-> [NoArgs EXCEPT !.id = i, !.body = b]] :
            i \in Ids, b \in {[NoBody EXCEPT !.has = {"amount"}, !.amount = Num(-1)]}}

Init ==
    /\ users = <<Alice, Bob>>
    /\ records = <<>> /\ nextId = 1
    /\ reqs = [s \in Slots |-> Idle] /\ res = NoRes
    /\ sample = <<>> /\ totals = <<>>
    /\ submitted = [i \in Ids |-> <<>>]

Ops(Inputs) == {q.op : q \in Inputs}

\* app.use("/api", router): a request is taken whenever it comes, whatever
\* else is in flight.  At most MaxRecords creates are ever sent.
Arrive(s, Inputs, Credentials) ==
    \E op \in Ops(Inputs), tok \in Credentials :
        /\ op = "create" => nextId + Cardinality({z \in Slots : /\ reqs[z].op = "create"
                                                            /\ reqs[z].pc \in {"auth", "insert"}})
                                    <= MaxRecords
        /\ Receive(s, op, tok)

Next ==
    \E s \in Slots :
        \/ Arrive(s, CrudRequests, LoggedIn)
        \/ Authorize(s, CrudRequests)
        \/ CreateInsert(s) \/ CreateTotals(s)
        \/ GetAll(s) \/ GetOne(s)
        \/ PutUpdate(s) \/ PutTotals(s)
        \/ DeleteRemove(s) \/ DeleteTotals(s)

Spec == Init /\ [][Next]_vars

\* ------------------------------------------------------------ the auth gate
\* One request of every protected route, under every credential.
AuthRequests ==
    {[op |-> "create", args |-> [NoArgs EXCEPT !.body = Body(Income, Num(1), D(0))]],
     [op |-> "getAll", args |-> NoArgs],
     [op |-> "getOne", args |-> [NoArgs EXCEPT !.id = 1]],
     [op |-> "put",
      args |-> [NoArgs EXCEPT !.id = 1,
                  !.body = [NoBody EXCEPT !.has = {"type"}, !.type = Expense]]],
     [op |-> "delete", args |-> [NoArgs EXCEPT !.id = 1]],
     [op |-> "byTime", args |-> [NoArgs EXCEPT !.filter = Year]],
     [op |-> "search", args |-> [NoArgs EXCEPT !.query = <<"o">>]]}

NextAuth ==
    \E s \in Slots :
        \/ Arrive(s, AuthRequests, Tokens)
        \/ Authorize(s, AuthRequests)
        \/ CreateInsert(s) \/ CreateTotals(s)
        \/ GetAll(s) \/ GetOne(s)
        \/ PutUpdate(s) \/ PutTotals(s)
        \/ DeleteRemove(s) \/ DeleteTotals(s)
        \/ ByTime(s) \/ Search(s)

SpecAuth == Init /\ [][NextAuth]_vars

\* ------------------------------------------------------- the time window
\* Creates dated at every instant up to MaxDate, and every filter token.
TimeRequests ==
    {[op |-> "create", args |-> [NoArgs EXCEPT !.body = Body(Income, Num(1), D(t))]] :
        t \in 0..MaxDate}
    \cup {[op |-> "byTime", args |-> [NoArgs EXCEPT !.filter = f]] :
            f \in {Today, Month, Year, <<"T", "o", "d", "a", "y">>,
                   <<"w", "e", "e", "k">>, <<>>}}

NextTime ==
    \E s \in Slots :
        \/ Arrive(s, TimeRequests, LoggedIn)
        \/ Authorize(s, TimeRequests)
        \/ CreateInsert(s) \/ CreateTotals(s)
        \/ ByTime(s)

SpecTime == Init /\ [][NextTime]_vars

\* -------------------------------------------------------------- the search
SearchBodies ==
    {Body(Income, Num(1), D(0)),
     [Body(Income, Num(1), D(0)) EXCEPT
        !.has = {"type", "amount", "date", "category", "description"},
        !.category = Food, !.description = <<"a", ".", "b">>],
     [Body(Expense, Num(1), D(0)) EXCEPT
        !.has = {"type", "amount", "date", "category", "description"},
        !.category = <<"R", "e", "n", "t">>, !.description = <<"O", "n">>]}

SearchQueries ==
    {<<>>, <<" ">>, <<"\t">>, <<"o">>, <<"O", "O">>, <<"e", "x">>, <<".">>,
     <<"a", ".", "b">>, <<"(">>, <<"o", "+">>, <<"^", "r">>, <<"z">>}

SearchRequests ==
    {[op |-> "create", args |-> [NoArgs EXCEPT !.body = b]] : b \in SearchBodies}
    \cup {[op |-> "search", args |-> [NoArgs EXCEPT !.query = q]] : q \in SearchQueries}

NextSearch ==
    \E s \in Slots :
        \/ Arrive(s, SearchRequests, LoggedIn)
        \/ Authorize(s, SearchRequests)
        \/ CreateInsert(s) \/ CreateTotals(s)
        \/ Search(s)

SpecSearch == Init /\ [][NextSearch]_vars

\* ------------------------------------------------------------ registration
RegisterBodies ==
    {[NoBody EXCEPT !.has = {"name", "email", "password"},
                    !.name = <<"A">>, !.email = e, !.password = <<"p">>] :
        e \in {<<"a", "@", "x", ".", "i", "o">>, <<"b", "-", "1", "@", "x", ".", "i", "o">>,
               <<"b", "a", "d", "-", "e", "m", "a", "i", "l">>,
               <<"a", "@", "x", ".", "i">>}}
    \cup {[NoBody EXCEPT !.has = {"name", "email"}, !.name = <<"A">>,
                         !.email = <<"a", "@", "x", ".", "i", "o">>]}

InitRegister ==
    /\ users = <<>>
    /\ records = <<>> /\ nextId = 1
    /\ reqs = [s \in Slots |-> Idle] /\ res = NoRes
    /\ sample = <<>> /\ totals = <<>>
    /\ submitted = [i \in Ids |-> <<>>]

NextRegister ==
    \E s \in Slots :
        \/ \E body \in RegisterBodies : Register(s, body)
        \/ RegisterFindOne(s)
        \/ RegisterHash(s)
        \/ RegisterCreate(s)

SpecRegister == InitRegister /\ [][NextRegister]_vars

\* ------------------------------------------------------------------ C3
Errors == {400, 401, 404, 500}

\* The records of the store and those of one owner, as sets.
Stored == {records[i] : i \in 1..Len(records)}
OwnedBy(uid) == {r \in Stored : r.userId = uid}
Returned == {res.data[i] : i \in 1..Len(res.data)}

\* The totals of the records of rs, summed by index.
TotalsOf(rs) ==
    LET income  == SumAt(rs, Len(rs), Income)
        expense == SumAt(rs, Len(rs), Expense)
    IN  [totalIncome |-> income, totalExpense |-> expense,
         totalBalance |-> Minus(income, expense)]

\* C3: after any sequence of completed creates, updates and deletes, a
\* successful GET /all-expenses returns exactly the records now in the store
\* whose owner is the caller, each once, with the totals of exactly those.
C3_AllExpenses ==
    (res.op = "getAll" /\ res.status = 200) =>
        /\ Returned = OwnedBy(res.user)
        /\ Len(res.data) = Cardinality(OwnedBy(res.user))
        /\ res.totals = <<TotalsOf(res.data)>>

\* all-expenses answered a caller whose one record is an Expense that an
\* update has changed, while the other user owns an Income record.
C3_Witness ==
    /\ res.op = "getAll" /\ res.status = 200
    /\ \E r \in Stored : r.userId = res.user /\ r.type = Expense /\ r.amount = Num(-1)
    /\ \E r \in Stored : r.userId # res.user /\ r.type = Income
    /\ Len(res.data) = 1

\* ------------------------------------------------------------------ C4
Others(uid) == SelectSeq(records, LAMBDA r : r.userId # uid)
Own(uid) == SelectSeq(records, LAMBDA r : r.userId = uid)

MutationAnswered == res.op \in {"put", "delete"} /\ res.status = 200

\* C4 as stated: the totals of a successful PUT or DELETE are those of the
\* whole store, and they differ from the caller's own totals whenever another
\* owner holds an Income or Expense record with a nonzero amount.
C4_Original ==
    MutationAnswered =>
        /\ res.totals = <<TotalsOf(records)>>
        /\ (\E r \in Stored : /\ r.userId # res.user
                              /\ r.type \in {Income, Expense}
                              /\ AmountOf(r.amount) # Zero)
              => res.totals # <<TotalsOf(Own(res.user))>>

\* An Income or Expense record of another owner than uid counts a nonzero
\* amount.
OthersCount(uid) ==
    \E r \in Stored : /\ r.userId # uid
                      /\ r.type \in {Income, Expense}
                      /\ AmountOf(r.amount) # Zero

\* C4 as amended: the totals of a successful PUT or DELETE are those of the
\* whole store after the mutation; they differ from the caller's own totals
\* only when another owner holds an Income or Expense record with a nonzero
\* amount, and they need not differ then.
C4_StoreWideTotals ==
    MutationAnswered =>
        /\ res.totals = <<TotalsOf(records)>>
        /\ res.totals # <<TotalsOf(Own(res.user))>> => OthersCount(res.user)

\* A PUT was answered with the totals the caller's own records have, while
\* the other user holds two Income records whose nonzero amounts cancel.
C4_Witness ==
    /\ MutationAnswered /\ res.op = "put"
    /\ OthersCount(res.user)
    /\ Len(Others(res.user)) = 2
    /\ res.totals = <<TotalsOf(Own(res.user))>>

\* ------------------------------------------------------------------ C5
\* C5: a request answered with an error has written nothing: a create, update
\* or delete that is answered 400, 401, 404 or 500 did not get as far as its
\* write (its newRecord, updatedRecord or deletedRecord is unset).
C5_NoPartialSuccess ==
    (res.op \in {"create", "put", "delete"} /\ res.status \in Errors) =>
        res.rec = <<>>

\* ------------------------------------------------------------------ C10
\* C10: GET /expense/i by any authenticated user, for a record that
\* create-expense stored and nothing has updated or deleted since, finds the
\* record, and its type, amount, category, date and description are those
\* submitted and its owner the creating user.
C10_RoundTrip ==
    (res.op = "getOne" /\ res.args.id \in Ids /\ submitted[res.args.id] # <<>>) =>
        /\ res.status \in {200, 500}
        /\ res.status = 200 =>
            LET b == submitted[res.args.id][1].body
                d == res.data[1]
            IN  /\ Len(res.data) = 1
                /\ d.id = res.args.id
                /\ d.type = b.type /\ d.amount = b.amount /\ d.date = b.date
                /\ Has(b, "category") => d.category = b.category
                /\ Has(b, "description") => d.description = b.description
                /\ d.userId = submitted[res.args.id][1].user

\* Another user than the creator read back a record created with a category
\* and a description.
C10_Witness ==
    /\ res.op = "getOne" /\ res.status = 200
    /\ submitted[res.args.id] # <<>>
    /\ submitted[res.args.id][1].user # res.user
    /\ Has(submitted[res.args.id][1].body, "description")
    /\ res.data[1].category = Food

\* ------------------------------------------------------------------ C2
\* A credential the gate must refuse: no bearer token, a token that is
\* malformed, badly signed or expired, or one naming a user not in the store.
BadCredential(tok) ==
    \/ tok.kind # "valid"
    \/ ~\E i \in 1..Len(users) : users[i].id = tok.userId

\* C2: a request to a protected route with a bad credential is answered 401
\* with no record in the answer, and no handler is ever running for such a
\* request: nothing is read out, created, changed or deleted by it.
C2_AuthGate ==
    /\ (res.op # "none" /\ BadCredential(res.tok)) =>
          /\ res.status = 401
          /\ res.data = <<>> /\ res.totals = <<>> /\ res.rec = <<>>
          /\ res.user = 0
    /\ \A s \in Slots :
          reqs[s].pc \notin {"idle", "auth"} =>
              ~BadCredential(reqs[s].tok) /\ reqs[s].user = reqs[s].tok.userId

\* A DELETE with a well-signed token naming a user that is in no store was
\* refused while the store holds a record.
C2_Witness ==
    /\ res.op = "delete" /\ res.status = 401
    /\ res.tok = [kind |-> "valid", userId |-> 3]
    /\ records # <<>>

\* ------------------------------------------------------------------ C6
\* C6: no two stored users have the same email, whatever the interleaving of
\* the registrations at their lookup, their hash and their insert.
C6_UniqueEmail ==
    \A i, j \in 1..Len(users) : i # j => users[i].email # users[j].email

\* Two registrations of one email were both past the duplicate lookup; one
\* was stored and the other, at its insert, was answered 500.
C6_Witness ==
    /\ res.op = "register" /\ res.status = 500 /\ res.rec # <<>>
    /\ \E i \in 1..Len(users) : users[i].email = res.args.body.email
    /\ Len(users) = 2

\* ------------------------------------------------------------------ C7
\* The first and last instant of the day, month or year that holds instant at.
PeriodLength(f) ==
    IF f = Today THEN TicksPerDay
    ELSE IF f = Month THEN TicksPerDay * DaysPerMonth
    ELSE TicksPerDay * DaysPerMonth * MonthsPerYear
PeriodStart(f, at) == (at \div PeriodLength(f)) * PeriodLength(f)
PeriodEnd(f, at) == PeriodStart(f, at) + PeriodLength(f) - 1

TimeAnswered ==
    /\ res.op = "byTime" /\ res.status = 200
    /\ res.args.filter \in {Today, Month, Year}

\* C7: for filter today, month or year and the instant at the handler read
\* from the clock, expenses-by-time returns exactly the caller's records
\* dated from the first to the last instant of that day, month or year, both
\* ends included.
C7_Window ==
    TimeAnswered =>
        /\ Returned = {r \in OwnedBy(res.user) :
                          /\ PeriodStart(res.args.filter, res.at) <= r.date.t
                          /\ r.date.t <= PeriodEnd(res.args.filter, res.at)}
        /\ Len(res.data) = Cardinality(Returned)

\* Under "today", asked later in the day, the caller's record dated at the
\* first instant of the day (midnight) was returned and the caller's record
\* of the last instant of the day before was not.
C7_Witness ==
    /\ TimeAnswered /\ res.args.filter = Today
    /\ res.at = PeriodEnd(Today, res.at)
    /\ \E r \in Returned : r.date.t = PeriodStart(Today, res.at)
    /\ \E r \in OwnedBy(res.user) : r.date.t = PeriodStart(Today, res.at) - 1
    /\ Len(res.data) = 1

\* ------------------------------------------------------------------ C8
\* C8: expenses-by-time with a filter other than "today", "month", "year" (an
\* absent one, another letter case) is answered 400 with no records, and no
\* such request ever goes on to query a window.
C8_InvalidFilter ==
    /\ (res.op = "byTime" /\ res.user # 0
            /\ res.args.filter \notin {Today, Month, Year}) =>
          res.status = 400 /\ res.data = <<>>
    /\ \A s \in Slots :
          (reqs[s].op = "byTime" /\ reqs[s].pc = "find") =>
              reqs[s].args.filter \in {Today, Month, Year}

\* "Today" in another letter case was refused while the caller owns a record.
C8_Witness ==
    /\ res.op = "byTime" /\ res.status = 400
    /\ res.args.filter = <<"T", "o", "d", "a", "y">>
    /\ \E r \in OwnedBy(res.user) : r.date.t = 0

\* ------------------------------------------------------------------ C9
\* str contains q as a substring when letter case is ignored.
ContainsIgnoringCase(str, q) ==
    \E off \in 0..(Len(str) - Len(q)) :
        \A i \in 1..Len(q) : toLower(str[off + i]) = toLower(q[i])

Matching(q) ==
    SelectSeq(records, LAMBDA r : \/ ContainsIgnoringCase(r.category, q)
                                  \/ ContainsIgnoringCase(r.description, q)
                                  \/ ContainsIgnoringCase(r.type, q))

\* C9: for a query that is not empty or blank, search-expenses returns exactly
\* the records of the collection whose category, description or type contains
\* the query as a substring, letter case ignored, in the store's order, and
\* totalResults is their number.
C9_Search ==
    (res.op = "search" /\ res.status = 200) =>
        /\ res.data = Matching(res.args.query)
        /\ res.totalResults = Len(res.data)
====
